---- MODULE Spec2Model ----
(***************************************************************************)
(* Result handling of MySQL Connector/C++.                                 *)
(*                                                                         *)
(* The module models class Result_impl_base of src/common/result.h: the    *)
(* multi-result state machine (next_result), the row cache with bounded    *)
(* prefetch (load_cache / store / count / get_row), the Row_processor      *)
(* callbacks through which the CDK cursor pushes rows, and the accessors   *)
(* of the reply's scalar facts.                                            *)
(*                                                                         *)
(* The header holds the declarations, the inline methods and the doc       *)
(* comments; the out-of-line bodies (next_result, get_row, load_cache,     *)
(* row_end, field_begin, field_data, end_of_data, load_diagnostics) and    *)
(* the CDK reply/cursor are modelled from the design document.             *)
(***************************************************************************)
EXTENDS Integers, Sequences, FiniteSets, TLC

\* ------------------------------------------------------------------ bounds

MaxResults == 3      \* results one reply reports
MaxRows == 5         \* rows of one row-bearing result
MaxPrefetch == 3     \* largest prefetch_size handed to load_cache

\* next_result() is called up to twice after the last result of a reply.
MaxNextCalls == MaxResults + 2

\* The affected-rows counts a status result of the model may report.
AffectedCounts == {1, 2}

\* --------------------------------------------------------------- the reply

\* One result of a reply, as the transport reports it.
\* A status result reports a affected rows, auto-increment id 10 + a and
\* a - 1 warnings; an error result puts an error entry on the reply.
DataResult(k) ==
  [kind |-> "data", rows |-> k, affected |-> 0, insert_id |-> 0, warnings |-> 0]
StatusResult(a) ==
  [kind |-> "status", rows |-> 0, affected |-> a, insert_id |-> 10 + a,
   warnings |-> a - 1]
ErrorResult ==
  [kind |-> "error", rows |-> 0, affected |-> 0, insert_id |-> 0, warnings |-> 0]

\* Before the first result is asked for, and after the last one.
NoResult ==
  [kind |-> "none", rows |-> 0, affected |-> 0, insert_id |-> 0, warnings |-> 0]
EndOfReply ==
  [kind |-> "end", rows |-> 0, affected |-> 0, insert_id |-> 0, warnings |-> 0]

ResultKinds ==
  {DataResult(k) : k \in 0..MaxRows}
    \cup {StatusResult(a) : a \in AffectedCounts}
    \cup {ErrorResult}

(* The fields of row i (0-based) of result r as the cursor delivers them,   *)
(* in delivery order.  Column 1 carries <<r, i>> and the sentinel byte, in  *)
(* two chunks; column 0 is NULL in odd rows and an empty value (sentinel    *)
(* only) in even rows, where it is delivered after column 1.                *)
WireFields(r, i) ==
  IF i % 2 = 1
    THEN << [col |-> 0, null |-> TRUE, chunks |-> << >>],
            [col |-> 1, null |-> FALSE, chunks |-> << <<r>>, <<i, 0>> >>] >>
    ELSE << [col |-> 1, null |-> FALSE, chunks |-> << <<r, i>>, <<0>> >>],
            [col |-> 0, null |-> FALSE, chunks |-> << <<0>> >>] >>

\* --------------------------------------------------------------- variables

VARIABLES
  cur,                \* reply: the result it is positioned at
  rpos,               \* reply: number of results it has reported so far
  cpos,               \* cursor: rows of the current result delivered so far
  m_reply,            \* Result_impl_base::m_reply is non-null
  m_cursor,           \* Result_impl_base::m_cursor is non-null
  m_inited,
  m_pending_rows,
  m_row_cache,
  m_row_cache_size,
  m_row,              \* Row_processor accumulation buffer
  m_row_filter,
  m_diag_ready,
  m_diag,             \* Diagnostic_arena: number of entries copied
  op,                 \* the last operation called
  arg,                \* its argument
  ret,                \* what it returned (or the error it raised)
  taken,              \* rows returned by get_row() from the current result
  calls,              \* Row_processor callbacks run by the last operation
  nextCalls,          \* number of next_result() calls so far
  exhausted,          \* some next_result() call has returned false
  dropped,            \* the last next_result() discarded unread rows,
                      \* some cached and some not yet delivered
  sinceStore,         \* 1 after store(), 2 and 3 after the first and the
                      \* second count() that directly follow it, else 0
  diagReads,          \* times the reply's entries were copied so far
  diagClears,         \* number of clear_diagnostics() calls so far
  \* Result::Impl of connector/result.cc, its cursor and its RowResult
  Impl_m_reply,       \* Result::Impl::m_reply is non-null
  Impl_entry_count,   \* reply: m_reply->entry_count(), its error entries
  Impl_has_results,   \* reply: m_reply->has_results()
  Impl_m_cursor,      \* Result::Impl::m_cursor is non-null
  col_count,          \* cursor: number of columns
  col_type,           \* cursor: type of each column
  m_rows,             \* Result::Impl::m_rows
  m_pos,              \* Result::Impl::m_pos
  RowResult_m_pos,    \* RowResult::m_pos
  reading,            \* read_rows() is running: the cursor drives callbacks
  t_row,              \* cursor: rows begun so far
  t_in_row,           \* cursor: between row_begin and row_end
  t_done,             \* cursor: columns of the row already delivered
  t_col,              \* cursor: the column whose field is open, or -1
  t_left,             \* cursor: bytes of the open field not yet delivered
  wire,               \* what the cursor has delivered or begun, per row
  iop,                \* the last operation or callback on Result::Impl
  iarg,               \* its argument
  iret,               \* what it returned (or the error it raised)
  dtor,               \* ~Impl(): 0 not called, 1 after its first statement,
                      \* 2 finished
  released,           \* the objects ~Impl() has deleted, in order
  ihandle,            \* the Row the last getString or getBytes was called
                      \* on: the row position next() returned it for, or -1
  \* Meta_data and Row_impl of common/result.h
  Meta_m_col_count,   \* Meta_data_base::m_col_count
  m_cols,             \* Meta_data::m_cols
  m_data,             \* Row_impl::m_data
  m_mdata,            \* Row_impl::m_mdata is non-null
  m_vals,             \* Row_impl::m_vals
  m_col_count,        \* Row_impl::m_col_count
  mkCount,            \* per position: conversions (Value::Access::mk) run
  got,                \* per position: the first value get() returned
  again,              \* the last operation was a get() of a position that
                      \* get() had returned a value for before
  setCalls,           \* number of set() calls so far
  lastSet,            \* per position: the value of the latest set() for it
  rop,                \* the last operation on the row or the catalog
  rarg,               \* its position argument
  rret                \* what it returned (or the error it raised)

baseVars ==
  << cur, rpos, cpos, m_reply, m_cursor, m_inited, m_pending_rows,
     m_row_cache, m_row_cache_size, m_row, m_row_filter, m_diag_ready,
     m_diag, op, arg, ret, taken, calls, nextCalls, exhausted, dropped,
     sinceStore, diagReads, diagClears >>

implVars ==
  << Impl_m_reply, Impl_entry_count, Impl_has_results, Impl_m_cursor,
     col_count, col_type, m_rows, m_pos, RowResult_m_pos, reading, t_row,
     t_in_row, t_done, t_col, t_left, wire, iop, iarg, iret, dtor, released,
     ihandle >>

rowVars ==
  << Meta_m_col_count, m_cols, m_data, m_mdata, m_vals, m_col_count,
     mkCount, got, again, setCalls, lastSet, rop, rarg, rret >>

vars == << baseVars, implVars, rowVars >>

\* ------------------------------------------------------------ return values

Ok(v) == [ok |-> TRUE, val |-> v]
Err(e) == [ok |-> FALSE, val |-> e]
None == "NULL"

\* What get_row() returns: no row (NULL), or a pointer to a row.
NoRow == << >>
RowPtr(row) == << row >>

\* ------------------------------------------------------------------ Row_data

\* typedef std::map<col_count_t, Buffer> Row_data
EmptyRow == << >>

MapInsert(m, k, v) ==
  IF k \in DOMAIN m THEN m
  ELSE [x \in DOMAIN m \cup {k} |-> IF x = k THEN v ELSE m[x]]

MapAt(m, k) == IF k \in DOMAIN m THEN m[k] ELSE << >>

MapPut(m, k, v) == [x \in DOMAIN m \cup {k} |-> IF x = k THEN v ELSE m[x]]

\* Buffer::append
Buffer_append(buf, data) == buf \o data

\* The filters a client may install in m_row_filter.
Filters == {"all", "col0_not_null"}

RowFilter(f, row) == f = "all" \/ 0 \in DOMAIN row

\* ------------------------------------------------- Row_processor callbacks

(* The callbacks act on the members of the result object that row ingest   *)
(* touches, gathered in a record o:                                        *)
(*   m_row, m_row_cache, m_row_cache_size, m_pending_rows,                 *)
(*   cpos (the cursor's position) and calls (callbacks run so far).        *)

\* row_begin that does not answer "continue"
row_begin_stop(o, pos) ==
  [cont |-> FALSE, o |-> [o EXCEPT !.m_row = EmptyRow, !.calls = @ + 1]]

\* row_begin without m_row.clear()
row_begin_noclear(o, pos) ==
  [cont |-> TRUE, o |-> [o EXCEPT !.calls = @ + 1]]

\* bool row_begin(row_count_t) { m_row.clear(); return true; }
row_begin(o, pos) ==
  [cont |-> TRUE, o |-> [o EXCEPT !.m_row = EmptyRow, !.calls = @ + 1]]

\* size_t field_begin(col_count_t pos, size_t): a buffer for column pos
field_begin(o, pos) ==
  [o EXCEPT !.m_row = MapInsert(@, pos, << >>), !.calls = @ + 1]

\* size_t field_data(col_count_t pos, bytes): append the chunk
field_data(o, pos, data) ==
  [o EXCEPT !.m_row = MapPut(@, pos, Buffer_append(MapAt(@, pos), data)),
            !.calls = @ + 1]

\* void field_end(col_count_t) {}
field_end(o, pos) == [o EXCEPT !.calls = @ + 1]

\* void field_null(col_count_t) {}
field_null(o, pos) == [o EXCEPT !.calls = @ + 1]

\* row_end that keeps every row
row_end_keep(o, pos, f) ==
  [o EXCEPT !.m_row_cache = Append(@, o.m_row),
            !.m_row_cache_size = @ + 1,
            !.m_row = EmptyRow,
            !.calls = @ + 1]

(* void row_end(row_count_t): a row the filter rejects is dropped, any     *)
(* other row is moved to the end of the cache.                             *)
row_end(o, pos, f) ==
  IF ~RowFilter(f, o.m_row)
    THEN [o EXCEPT !.calls = @ + 1]
    ELSE [o EXCEPT !.m_row_cache = Append(@, o.m_row),
                   !.m_row_cache_size = @ + 1,
                   !.m_row = EmptyRow,
                   !.calls = @ + 1]

\* void end_of_data(): the server has no more rows for this result
end_of_data(o) == [o EXCEPT !.m_pending_rows = FALSE, !.calls = @ + 1]

\* ---------------------------------------------------------- the CDK cursor

RECURSIVE DeliverChunks(_, _, _)
DeliverChunks(o, col, chunks) ==
  IF chunks = << >> THEN o
  ELSE DeliverChunks(field_data(o, col, Head(chunks)), col, Tail(chunks))

\* field_null(col), or field_begin(col), field_data(col, chunk)*, field_end(col)
DeliverField(o, fld) ==
  IF fld.null THEN field_null(o, fld.col)
  ELSE field_end(DeliverChunks(field_begin(o, fld.col), fld.col, fld.chunks),
                 fld.col)

RECURSIVE DeliverFields(_, _)
DeliverFields(o, flds) ==
  IF flds = << >> THEN o
  ELSE DeliverFields(DeliverField(o, Head(flds)), Tail(flds))

(* cdk::Cursor::get_rows(prc, limit) followed by wait(): the cursor pushes *)
(* the next rows of result r (which has k rows) into the processor.  It    *)
(* stops after limit rows (limit 0: no limit), when row_begin does not     *)
(* answer "continue", or at the end of the rows, which it reports with     *)
(* end_of_data.  n is the number of rows delivered in this batch.          *)
RECURSIVE Cursor_get_rows(_, _, _, _, _, _)
Cursor_get_rows(o, r, k, f, limit, n) ==
  IF limit > 0 /\ n >= limit THEN o
  ELSE IF o.cpos >= k THEN end_of_data(o)
  ELSE LET b == row_begin(o, o.cpos)
       IN IF ~b.cont THEN b.o
          ELSE LET filled == DeliverFields(b.o, WireFields(r, o.cpos))
                   ended == row_end(filled, o.cpos, f)
               IN Cursor_get_rows([ended EXCEPT !.cpos = @ + 1],
                                  r, k, f, limit, n + 1)

\* ---------------------------------------------------------------- the cache

\* load_cache that fetches also when the cache holds rows
load_cache_refetch(o, r, k, f, prefetch_size) ==
  IF ~o.m_pending_rows THEN [ret |-> o.m_row_cache # << >>, o |-> o]
  ELSE LET o2 == Cursor_get_rows(o, r, k, f, prefetch_size, 0)
       IN [ret |-> o2.m_row_cache # << >>, o |-> o2]

(* bool load_cache(row_count_t prefetch_size): "If cache is not empty, it  *)
(* returns true right away.  Otherwise it loads rows into the cache.  If   *)
(* prefetch_size is non-zero then at most that many rows are loaded.       *)
(* Returns true if some rows are present in the cache."                    *)
load_cache(o, r, k, f, prefetch_size) ==
  IF o.m_row_cache # << >> THEN [ret |-> TRUE, o |-> o]
  ELSE IF ~o.m_pending_rows THEN [ret |-> FALSE, o |-> o]
  ELSE LET o2 == Cursor_get_rows(o, r, k, f, prefetch_size, 0)
       IN [ret |-> o2.m_row_cache # << >>, o |-> o2]

\* clear_cache without m_row_cache.clear()
clear_cache_sizeonly(o) == [o EXCEPT !.m_row_cache_size = 0]

\* clear_cache without m_row_cache_size = 0
clear_cache_listonly(o) == [o EXCEPT !.m_row_cache = << >>]

\* void clear_cache() { m_row_cache.clear(); m_row_cache_size = 0; }
clear_cache(o) == [o EXCEPT !.m_row_cache = << >>, !.m_row_cache_size = 0]

\* void store() { load_cache(); }
store(o, r, k, f) == load_cache(o, r, k, f, 0).o

\* count that fetches one more row instead of calling store()
count_onemore(o, r, k, f) ==
  LET o2 == load_cache_refetch(o, r, k, f, 1).o
  IN [ret |-> o2.m_row_cache_size, o |-> o2]

\* row_count_t count() { store(); return m_row_cache_size; }
count(o, r, k, f) ==
  LET o2 == store(o, r, k, f) IN [ret |-> o2.m_row_cache_size, o |-> o2]

\* has_data that looks at the cache only
has_data_cacheonly(cache, pending) == cache # << >>

\* bool has_data() const { return !m_row_cache.empty() || m_pending_rows; }
has_data(cache, pending) == cache # << >> \/ pending

\* ------------------------------------------------------------ the CDK reply

\* The result the reply is positioned at.
Cur == cur

(* cdk::Reply: asked for the next result, the reply reports one more       *)
(* result (at most MaxResults of them) or its end; after an error entry    *)
(* or the end it has nothing more to report.                               *)
Reply_has_more == cur.kind \notin {"error", "end"}
Reply_next == (IF rpos < MaxResults THEN ResultKinds ELSE {}) \cup {EndOfReply}

\* cdk::Reply::entry_count(Severity::ERROR) > 0
Reply_has_error == Cur.kind = "error"

\* cdk::Reply::affected_rows(), last_insert_id(), entry_count(WARNING)
Reply_affected_rows == Cur.affected
Reply_last_insert_id == Cur.insert_id
Reply_warning_count == Cur.warnings

\* cdk::Reply::entry_count(): entries of every severity
Reply_entry_count == Cur.warnings + (IF Reply_has_error THEN 1 ELSE 0)

\* -------------------------------------------------------- the result object

\* The members row ingest works on (see the callbacks above).
Obj ==
  [m_row |-> m_row, m_row_cache |-> m_row_cache,
   m_row_cache_size |-> m_row_cache_size, m_pending_rows |-> m_pending_rows,
   cpos |-> cpos, calls |-> 0]

SetObj(o) ==
  /\ m_row' = o.m_row
  /\ m_row_cache' = o.m_row_cache
  /\ m_row_cache_size' = o.m_row_cache_size
  /\ m_pending_rows' = o.m_pending_rows
  /\ cpos' = o.cpos
  /\ calls' = o.calls

Called(name, a) ==
  /\ op' = name
  /\ arg' = a
  /\ sinceStore' = IF name = "store" THEN 1
                   ELSE IF name = "count" /\ sinceStore \in {1, 2}
                     THEN sinceStore + 1
                   ELSE 0
  /\ UNCHANGED << implVars, rowVars >>

(* Result_impl_base(Result_init&): the reply comes from the initializer    *)
(* and may be null; m_inited = false, m_pending_rows = false, m_cursor =   *)
(* nullptr, m_row_cache_size = 0, m_diag_ready = false; the default        *)
(* m_row_filter accepts every row, a client may install another.           *)
BaseInit ==
  /\ m_reply \in BOOLEAN
  /\ cur = NoResult
  /\ rpos = 0
  /\ cpos = 0
  /\ m_cursor = FALSE
  /\ m_inited = FALSE
  /\ m_pending_rows = FALSE
  /\ m_row_cache = << >>
  /\ m_row_cache_size = 0
  /\ m_row = EmptyRow
  /\ m_row_filter \in Filters
  /\ m_diag_ready = FALSE
  /\ m_diag = 0
  /\ op = "ctor"
  /\ arg = 0
  /\ ret = Ok(None)
  /\ taken = << >>
  /\ calls = 0
  /\ nextCalls = 0
  /\ exhausted = FALSE
  /\ dropped = FALSE
  /\ sinceStore = 0
  /\ diagReads = 0
  /\ diagClears = 0

(* bool next_result(): drops the cursor and the cached rows of the current *)
(* result, then asks the reply for the next result.  No reply, an error    *)
(* entry on the reply or no further result: false.  A result with row data *)
(* gets a cursor and has pending rows; a status result has neither.        *)
NextResult ==
  /\ nextCalls < MaxNextCalls
  /\ LET cleared == clear_cache(Obj)
         more == m_reply /\ Reply_has_more
     IN \E nxt \in (IF more THEN Reply_next ELSE {cur}) :
          LET prepared == more /\ nxt.kind \in {"data", "status"}
              data == more /\ nxt.kind = "data"
          IN /\ SetObj([cleared EXCEPT !.m_pending_rows = data, !.cpos = 0])
             /\ cur' = nxt
             /\ rpos' = IF more /\ nxt.kind # "end" THEN rpos + 1 ELSE rpos
             /\ m_cursor' = data
             /\ m_inited' = TRUE
             /\ ret' = Ok(prepared)
             /\ exhausted' = (exhausted \/ ~prepared)
  /\ Called("next_result", 0)
  /\ taken' = << >>
  /\ nextCalls' = nextCalls + 1
  /\ dropped' = (m_row_cache # << >> /\ m_cursor /\ cpos < Cur.rows)
  /\ UNCHANGED << m_reply, m_row_filter, m_diag_ready, m_diag, diagReads,
                  diagClears >>

\* bool has_data() const
HasData ==
  /\ Called("has_data", 0)
  /\ ret' = Ok(has_data(m_row_cache, m_pending_rows))
  /\ calls' = 0
  /\ UNCHANGED << cur, rpos, cpos, m_reply, m_cursor, m_inited, m_pending_rows,
                  m_row_cache, m_row_cache_size, m_row, m_row_filter,
                  m_diag_ready, m_diag, diagReads, diagClears, taken,
                  nextCalls, exhausted, dropped >>

(* const Row_data *get_row(): "Fetches next row from the result, if any.   *)
(* Returns NULL if there are no more rows.  Throws exception if this       *)
(* result has no data.  Rows are cached internally and read in larger      *)
(* batches."  The batch size n is the implementation's choice.             *)
GetRow ==
  /\ Called("get_row", 0)
  /\ \E n \in 0..MaxPrefetch :
       IF ~m_cursor
         THEN /\ ret' = Err("no data")
              /\ calls' = 0
              /\ UNCHANGED << cpos, m_pending_rows, m_row_cache,
                              m_row_cache_size, m_row, taken >>
         ELSE LET lc == load_cache(Obj, rpos, Cur.rows, m_row_filter, n)
              IN IF lc.o.m_row_cache = << >>
                   THEN /\ ret' = Ok(NoRow)
                        /\ SetObj(lc.o)
                        /\ taken' = taken
                   ELSE /\ ret' = Ok(RowPtr(Head(lc.o.m_row_cache)))
                        /\ SetObj([lc.o EXCEPT
                                     !.m_row_cache = Tail(@),
                                     !.m_row_cache_size = @ - 1])
                        /\ taken' = Append(taken, Head(lc.o.m_row_cache))
  /\ UNCHANGED << cur, rpos, m_reply, m_cursor, m_inited, m_row_filter,
                  m_diag_ready, m_diag, diagReads, diagClears, nextCalls,
                  exhausted, dropped >>

\* bool load_cache(row_count_t prefetch_size = 0)
LoadCache ==
  \E n \in 0..MaxPrefetch :
    /\ Called("load_cache", n)
    /\ LET lc == load_cache(Obj, rpos, Cur.rows, m_row_filter, n)
       IN ret' = Ok(lc.ret) /\ SetObj(lc.o)
    /\ UNCHANGED << cur, rpos, m_reply, m_cursor, m_inited, m_row_filter,
                    m_diag_ready, m_diag, diagReads, diagClears, taken,
                    nextCalls, exhausted, dropped >>

\* void store()
Store ==
  /\ Called("store", 0)
  /\ ret' = Ok(None)
  /\ SetObj(store(Obj, rpos, Cur.rows, m_row_filter))
  /\ UNCHANGED << cur, rpos, m_reply, m_cursor, m_inited, m_row_filter,
                  m_diag_ready, m_diag, diagReads, diagClears, taken,
                  nextCalls, exhausted, dropped >>

\* row_count_t count()
Count ==
  /\ Called("count", 0)
  /\ LET c == count(Obj, rpos, Cur.rows, m_row_filter)
     IN ret' = Ok(c.ret) /\ SetObj(c.o)
  /\ UNCHANGED << cur, rpos, m_reply, m_cursor, m_inited, m_row_filter,
                  m_diag_ready, m_diag, diagReads, diagClears, taken,
                  nextCalls, exhausted, dropped >>

\* get_affected_rows that also refuses a result not yet prepared
get_affected_rows_inited ==
  IF ~m_reply \/ ~m_inited THEN Err("empty result")
  ELSE Ok(Reply_affected_rows)

\* if (!m_reply) THROW(...); return m_reply->affected_rows();
get_affected_rows ==
  IF ~m_reply THEN Err("empty result") ELSE Ok(Reply_affected_rows)

\* if (!m_reply) THROW(...); return m_reply->last_insert_id();
get_auto_increment ==
  IF ~m_reply THEN Err("empty result") ELSE Ok(Reply_last_insert_id)

\* if (!m_reply) THROW(...); load_diagnostics(); return entry_count(WARNING);
get_warning_count ==
  IF ~m_reply THEN Err("empty result") ELSE Ok(Reply_warning_count)

Unread ==
  << cur, rpos, cpos, m_reply, m_cursor, m_inited, m_pending_rows,
     m_row_cache, m_row_cache_size, m_row, m_row_filter, taken, nextCalls,
     exhausted, dropped >>

GetAffectedRows ==
  /\ Called("get_affected_rows", 0)
  /\ ret' = get_affected_rows
  /\ calls' = 0
  /\ UNCHANGED << Unread, m_diag_ready, m_diag, diagReads, diagClears >>

GetAutoIncrement ==
  /\ Called("get_auto_increment", 0)
  /\ ret' = get_auto_increment
  /\ calls' = 0
  /\ UNCHANGED << Unread, m_diag_ready, m_diag, diagReads, diagClears >>

(* void load_diagnostics(): copies the reply's entries into this object    *)
(* unless they have been copied already.                                   *)
load_diagnostics ==
  IF m_diag_ready THEN UNCHANGED << m_diag_ready, m_diag, diagReads >>
  ELSE /\ m_diag' = Reply_entry_count
       /\ m_diag_ready' = TRUE
       /\ diagReads' = diagReads + 1

GetWarningCount ==
  /\ Called("get_warning_count", 0)
  /\ ret' = get_warning_count
  /\ calls' = 0
  /\ IF m_reply THEN load_diagnostics
     ELSE UNCHANGED << m_diag_ready, m_diag, diagReads >>
  /\ UNCHANGED << Unread, diagClears >>

\* The largest number of clear_diagnostics() calls on one result object.
MaxClears == 2

\* clear_diagnostics that leaves the flag as it is
clear_diagnostics_keepflag == [m_diag |-> 0, m_diag_ready |-> m_diag_ready]

(* void clear_diagnostics()                                                *)
(*   { Diagnostic_arena::clear(); m_diag_ready = false; }                  *)
clear_diagnostics == [m_diag |-> 0, m_diag_ready |-> FALSE]

ClearDiagnostics ==
  /\ diagClears < MaxClears
  /\ Called("clear_diagnostics", 0)
  /\ ret' = Ok(None)
  /\ calls' = 0
  /\ m_diag' = clear_diagnostics.m_diag
  /\ m_diag_ready' = clear_diagnostics.m_diag_ready
  /\ diagClears' = diagClears + 1
  /\ UNCHANGED << Unread, diagReads >>

\* ============================================ Result::Impl (connector)

\* The largest number of rows the cursor delivers to read_rows().
MaxImplRows == 2

\* Column counts and column types the cursor may report.
ColCounts == {1, 2}
Types == {"STRING", "INTEGER"}

(* The payloads of a non-NULL field; on the wire each is followed by one   *)
(* trailing zero byte.                                                     *)
Payloads == {<< >>, <<5, 6>>}
WireValues == {p \o <<0>> : p \in Payloads}

\* Column positions handed to getString and getBytes.
Positions == 0..3

\* No Row returned by next(): the call is made on the Impl itself.
NoHandle == -1

ImplCalledOn(name, a, h) ==
  /\ iop' = name
  /\ iarg' = a
  /\ ihandle' = h
  /\ UNCHANGED << dtor, released >>
  /\ UNCHANGED << baseVars, rowVars >>

ImplCalled(name, a) == ImplCalledOn(name, a, NoHandle)

(* bool row_begin(row_count_t pos)                                         *)
(*   { m_pos= pos; m_rows.insert(pair(pos, Row_data())); return true; }    *)
Impl_row_begin(rows, pos) == MapInsert(rows, pos, EmptyRow)

\* field_begin that replaces the buffer of every column of the row
Impl_field_begin_reset(rows, mpos, pos) ==
  MapPut(rows, mpos, (pos :> << >>))

(* size_t field_begin(col_count_t pos, size_t)                             *)
(*   { Row_data &rd= m_rows[m_pos]; rd.insert(pair(pos, Buffer())); }      *)
Impl_field_begin(rows, mpos, pos) ==
  MapPut(rows, mpos, MapInsert(MapAt(rows, mpos), pos, << >>))

\* field_data that keeps only the last chunk
Impl_field_data_last(rows, mpos, pos, data) ==
  MapPut(rows, mpos, MapPut(MapAt(rows, mpos), pos, data))

(* size_t field_data(col_count_t pos, bytes data)                          *)
(*   { m_rows[m_pos][pos].append(data); return 1024; }                     *)
Impl_field_data(rows, mpos, pos, data) ==
  MapPut(rows, mpos,
         MapPut(MapAt(rows, mpos), pos,
                Buffer_append(MapAt(MapAt(rows, mpos), pos), data)))

\* init that does not look at the reply's entries
Impl_init_noentries(r, entries, results) == r /\ results

(* void init(): whether it creates the cursor.  if (!m_reply) return;      *)
(* if (m_reply->entry_count() > 0) return; if (m_reply->has_results())     *)
(* { m_cursor= new cdk::Cursor(reply); ... }                              *)
Impl_init(r, entries, results) == r /\ ~(entries > 0) /\ results

(* Impl(cdk::Reply *r) and init(), up to the call of read_rows(): without  *)
(* a reply, or with an error entry on the reply, or with a reply that has  *)
(* no results, there is no cursor and nothing is read; otherwise the       *)
(* cursor is created and starts to drive the Row_processor callbacks.      *)
(* m_pos is not initialized by the constructor.                            *)
ImplStart ==
  /\ Impl_m_reply \in BOOLEAN
  /\ Impl_entry_count \in (IF Impl_m_reply THEN {0, 1} ELSE {0})
  /\ Impl_has_results \in (IF Impl_m_reply THEN BOOLEAN ELSE {FALSE})
  /\ Impl_m_cursor = Impl_init(Impl_m_reply, Impl_entry_count, Impl_has_results)
  /\ col_count \in (IF Impl_m_cursor THEN ColCounts ELSE {0})
  /\ col_type \in [0..(col_count - 1) -> Types]
  /\ m_rows = << >>
  /\ m_pos \in 0..MaxImplRows
  /\ RowResult_m_pos = 0
  /\ reading = Impl_m_cursor
  /\ t_row = 0
  /\ t_in_row = FALSE
  /\ t_done = {}
  /\ t_col = -1
  /\ t_left = << >>
  /\ wire = << >>
  /\ iop = "Impl"
  /\ iarg = 0
  /\ iret = Ok(None)
  /\ dtor = 0
  /\ released = << >>
  /\ ihandle = NoHandle

\* The Result::Impl part of the state while only Result_impl_base is used.
ImplIdle ==
  /\ ImplStart
  /\ ~Impl_m_reply
  /\ m_pos = 0

\* The Result_impl_base part of the state while only Result::Impl is used.
BaseIdle ==
  /\ BaseInit
  /\ ~m_reply
  /\ m_row_filter = "all"

\* The cursor calls row_begin(t_row).
Impl_RowBegin ==
  /\ reading /\ ~t_in_row /\ t_row < MaxImplRows
  /\ m_pos' = t_row
  /\ m_rows' = Impl_row_begin(m_rows, t_row)
  /\ t_in_row' = TRUE
  /\ t_done' = {}
  /\ wire' = MapPut(wire, t_row, EmptyRow)
  /\ iret' = Ok(TRUE)
  /\ ImplCalled("row_begin", t_row)
  /\ UNCHANGED << Impl_m_reply, Impl_entry_count, Impl_has_results,
                  Impl_m_cursor, col_count, col_type, RowResult_m_pos, reading,
                  t_row, t_col, t_left >>

\* The cursor calls field_null(c) for a column not yet delivered.
Impl_FieldNull ==
  /\ reading /\ t_in_row /\ t_col = -1
  /\ \E c \in (0..(col_count - 1)) \ t_done :
       /\ t_done' = t_done \cup {c}
       /\ ImplCalled("field_null", c)
  /\ iret' = Ok(None)
  /\ UNCHANGED << Impl_m_reply, Impl_entry_count, Impl_has_results,
                  Impl_m_cursor, col_count, col_type, m_rows, m_pos,
                  RowResult_m_pos, reading, t_row, t_in_row, t_col, t_left,
                  wire >>

\* The cursor calls field_begin(c, size) for a column not yet delivered.
Impl_FieldBegin ==
  /\ reading /\ t_in_row /\ t_col = -1
  /\ \E c \in (0..(col_count - 1)) \ t_done, v \in WireValues :
       /\ t_col' = c
       /\ t_left' = v
       /\ m_rows' = Impl_field_begin(m_rows, m_pos, c)
       /\ wire' = MapPut(wire, t_row, MapPut(wire[t_row], c, v))
       /\ ImplCalled("field_begin", c)
  /\ iret' = Ok(1024)
  /\ UNCHANGED << Impl_m_reply, Impl_entry_count, Impl_has_results,
                  Impl_m_cursor, col_count, col_type, m_pos, RowResult_m_pos,
                  reading, t_row, t_in_row, t_done >>

\* The cursor calls field_data(t_col, chunk) with the next bytes.
Impl_FieldData ==
  /\ reading /\ t_col # -1 /\ t_left # << >>
  /\ \E n \in 1..Len(t_left) :
       /\ m_rows' = Impl_field_data(m_rows, m_pos, t_col, SubSeq(t_left, 1, n))
       /\ t_left' = SubSeq(t_left, n + 1, Len(t_left))
  /\ iret' = Ok(1024)
  /\ ImplCalled("field_data", t_col)
  /\ UNCHANGED << Impl_m_reply, Impl_entry_count, Impl_has_results,
                  Impl_m_cursor, col_count, col_type, m_pos, RowResult_m_pos,
                  reading, t_row, t_in_row, t_done, t_col, wire >>

\* The cursor calls field_end(t_col): void field_end(col_count_t) {}
Impl_FieldEnd ==
  /\ reading /\ t_col # -1 /\ t_left = << >>
  /\ t_done' = t_done \cup {t_col}
  /\ t_col' = -1
  /\ iret' = Ok(None)
  /\ ImplCalled("field_end", t_col)
  /\ UNCHANGED << Impl_m_reply, Impl_entry_count, Impl_has_results,
                  Impl_m_cursor, col_count, col_type, m_rows, m_pos,
                  RowResult_m_pos, reading, t_row, t_in_row, t_left, wire >>

\* The cursor calls row_end(t_row): void row_end(row_count_t) {}
Impl_RowEnd ==
  /\ reading /\ t_in_row /\ t_col = -1 /\ t_done = 0..(col_count - 1)
  /\ t_in_row' = FALSE
  /\ t_row' = t_row + 1
  /\ iret' = Ok(None)
  /\ ImplCalled("row_end", t_row)
  /\ UNCHANGED << Impl_m_reply, Impl_entry_count, Impl_has_results,
                  Impl_m_cursor, col_count, col_type, m_rows, m_pos,
                  RowResult_m_pos, reading, t_done, t_col, t_left, wire >>

(* The cursor calls end_of_data() (void end_of_data() {}); read_rows() and *)
(* init() return, the cursor is closed and kept for its meta-data.         *)
Impl_EndOfData ==
  /\ reading /\ ~t_in_row
  /\ reading' = FALSE
  /\ iret' = Ok(None)
  /\ ImplCalled("end_of_data", 0)
  /\ UNCHANGED << Impl_m_reply, Impl_entry_count, Impl_has_results,
                  Impl_m_cursor, col_count, col_type, m_rows, m_pos,
                  RowResult_m_pos, t_row, t_in_row, t_done, t_col, t_left,
                  wire >>

(* Row* get_row(row_count_t pos)                                           *)
(*   { if (!m_cursor) return NULL; if (pos >= m_rows.size()) return NULL;  *)
(*     m_pos= pos; return this; }                                          *)
Impl_get_row(pos) ==
  IF ~Impl_m_cursor \/ pos >= Cardinality(DOMAIN m_rows)
    THEN [ret |-> Ok(None), m_pos |-> m_pos]
    ELSE [ret |-> Ok("this"), m_pos |-> pos]

(* m_cursor->type(pos): the type of a column of the result; what the       *)
(* cursor answers for a position that is not a column is not defined here  *)
(* (any type code, or an error).                                           *)
Cursor_type(pos) ==
  IF pos < col_count THEN {col_type[pos]}
  ELSE Types \cup {"UNKNOWN", "error"}

(* const string getString(col_count_t pos): "<type>: <bytes>", a STRING    *)
(* value without its last byte, any other value as hex digits of all its   *)
(* bytes, a column missing from the row as "<null>".  ty is what           *)
(* m_cursor->type(pos) answered.                                           *)
Impl_getString(pos, ty) ==
  IF ~Impl_m_cursor THEN Err("empty row")
  ELSE IF pos > col_count THEN Err("pos out of range")
  ELSE IF ty = "error" THEN Err("cursor error")
  ELSE IF m_pos \notin DOMAIN m_rows THEN Err("out_of_range")
  ELSE LET rd == m_rows[m_pos]
       IN IF pos \notin DOMAIN rd
            THEN Ok([type |-> ty, kind |-> "null", bytes |-> << >>])
          ELSE IF ty = "STRING"
            THEN Ok([type |-> ty, kind |-> "string",
                     bytes |-> SubSeq(rd[pos], 1, Len(rd[pos]) - 1)])
          ELSE Ok([type |-> ty, kind |-> "hex", bytes |-> rd[pos]])

\* bytes getBytes(col_count_t pos): m_rows.at(m_pos).at(pos).data()
Impl_getBytes(pos) ==
  IF m_pos \notin DOMAIN m_rows THEN Err("out_of_range")
  ELSE IF pos \notin DOMAIN m_rows[m_pos] THEN Err("out_of_range")
  ELSE Ok(m_rows[m_pos][pos])

ImplFixed ==
  << Impl_m_reply, Impl_entry_count, Impl_has_results, Impl_m_cursor,
     col_count, col_type, m_rows, reading, t_row, t_in_row, t_done, t_col,
     t_left, wire >>

\* Row* RowResult::next() { return m_impl->get_row(m_pos++); }
RowResult_next ==
  /\ ~reading /\ dtor = 0
  /\ RowResult_m_pos < MaxImplRows + 2
  /\ LET g == Impl_get_row(RowResult_m_pos)
     IN iret' = g.ret /\ m_pos' = g.m_pos
  /\ RowResult_m_pos' = RowResult_m_pos + 1
  /\ ImplCalled("next", RowResult_m_pos)
  /\ UNCHANGED ImplFixed

GetString ==
  /\ ~reading /\ dtor = 0
  /\ \E pos \in Positions : \E ty \in Cursor_type(pos) :
       /\ iret' = Impl_getString(pos, ty)
       /\ ImplCalled("getString", pos)
  /\ UNCHANGED << ImplFixed, m_pos, RowResult_m_pos >>

GetBytes ==
  /\ ~reading /\ dtor = 0
  /\ \E pos \in Positions :
       /\ iret' = Impl_getBytes(pos)
       /\ ImplCalled("getBytes", pos)
  /\ UNCHANGED << ImplFixed, m_pos, RowResult_m_pos >>

(* The Rows next() has returned so far, each named by the row position it  *)
(* was returned for.  get_row returns this: each of them is the Impl.      *)
Handles ==
  {p \in 0..(RowResult_m_pos - 1) : Impl_get_row(p).ret = Ok("this")}

\* getBytes(pos) called on one of the Rows next() has returned.
Row_GetBytes ==
  /\ ~reading /\ dtor = 0
  /\ \E pos \in Positions : \E h \in Handles :
       /\ iret' = Impl_getBytes(pos)
       /\ ImplCalledOn("getBytes", pos, h)
  /\ UNCHANGED << ImplFixed, m_pos, RowResult_m_pos >>

(* col_count_t RowResult::getColumnCount() const:                          *)
(*   if (!m_impl->m_cursor) throw "No result set"; return col_count();     *)
GetColumnCount ==
  /\ ~reading /\ dtor = 0
  /\ iret' = IF ~Impl_m_cursor THEN Err("No result set") ELSE Ok(col_count)
  /\ ImplCalled("getColumnCount", 0)
  /\ UNCHANGED << ImplFixed, m_pos, RowResult_m_pos >>

\* delete p: the object p points to is released; a null p: nothing happens
Delete(rel, p, obj) == IF p THEN Append(rel, obj) ELSE rel

(* ~Impl() { delete m_reply; delete m_cursor; }, called by Result::~Result *)
(* when the Result owns its Impl.  First statement: delete m_reply.        *)
Impl_DeleteReply ==
  /\ ~reading /\ dtor = 0
  /\ dtor' = 1
  /\ released' = Delete(released, Impl_m_reply, "reply")
  /\ iop' = "~Impl"
  /\ iarg' = 0
  /\ iret' = Ok(None)
  /\ ihandle' = NoHandle
  /\ UNCHANGED << ImplFixed, m_pos, RowResult_m_pos, baseVars, rowVars >>

\* ~Impl(), second statement: delete m_cursor.
Impl_DeleteCursor ==
  /\ dtor = 1
  /\ dtor' = 2
  /\ released' = Delete(released, Impl_m_cursor, "cursor")
  /\ iop' = "~Impl"
  /\ iarg' = 0
  /\ iret' = Ok(None)
  /\ ihandle' = NoHandle
  /\ UNCHANGED << ImplFixed, m_pos, RowResult_m_pos, baseVars, rowVars >>

\* ================================================= Meta_data and Row_impl

\* The largest number of columns a result reports.
MaxCols == 2

\* The largest number of set() calls on one row.
MaxSets == 1

(* The wire types: those of CDK_TYPE_LIST, in the order of the variant     *)
(* Format_info_storage with BYTES last, and a type code that is none of    *)
(* them.                                                                   *)
TypeList ==
  << "STRING", "INTEGER", "FLOAT", "DOCUMENT", "DATETIME", "GEOMETRY",
     "XML", "BYTES", "UNKNOWN" >>
CdkTypes == {TypeList[i] : i \in 1..8}

(* The types the cursor reports for n columns: column c has the type       *)
(* c places after the first column's type in TypeList.                     *)
ColumnTypes(n) ==
  {[c \in 0..(n - 1) |-> TypeList[((start + c) % Len(TypeList)) + 1]] :
     start \in 0..(Len(TypeList) - 1)}

(* What a row holds for a column: nothing (NULL), an empty buffer, the     *)
(* trailing byte only, two bytes and the trailing byte.                    *)
FieldList == << {}, {<< >>}, {<<0>>}, {<<5, 6, 0>>} >>

(* The rows of n columns: column c holds what comes c places after the     *)
(* first column's content in FieldList.                                    *)
RowDatas(n) ==
  {[c \in {x \in 0..(n - 1) :
             FieldList[((first + x) % Len(FieldList)) + 1] # {}} |->
      CHOOSE b \in FieldList[((first + c) % Len(FieldList)) + 1] : TRUE] :
     first \in 0..(Len(FieldList) - 1)}

\* A value a client stores with set().
UserValue == [kind |-> "UINT64", bytes |-> <<9>>]

\* The values a client stores in a row of its own.
UserValues == {UserValue, [kind |-> "UINT64", bytes |-> <<8>>]}

\* The largest number of set() calls on a row of the client's own.
MaxUserSets == 3

\* Value(): the NULL value
NullValue == [kind |-> "VNULL", bytes |-> << >>]

(* Meta_data::add<T>(pos, ci, fi): Column_info(Format_descr<T>(fi)), that  *)
(* is m_type = T and Format_descr<T> in the variant.                       *)
Meta_add(cols, pos, ty) == MapInsert(cols, pos, [m_type |-> ty, m_fmt |-> ty])

(* Meta_data::add_raw(pos, ci, type, fi): Column_info(type, fi), that is   *)
(* m_type = type and Format_descr<TYPE_BYTES> in the variant.              *)
Meta_add_raw(cols, pos, ty) ==
  MapInsert(cols, pos, [m_type |-> ty, m_fmt |-> "BYTES"])

(* Meta_data(cdk::Meta_data &md): for (pos = 0; pos < m_col_count; ++pos)  *)
(* switch (md.type(pos)): STRING, INTEGER, FLOAT, DOCUMENT, DATETIME,      *)
(* GEOMETRY, XML: add<T>(pos, ci, fi); default: add_raw(pos, ci, ti, fi).  *)
RECURSIVE Meta_data(_, _, _, _)
Meta_data(cols, pos, n, types) ==
  IF pos >= n THEN cols
  ELSE Meta_data(IF types[pos] \in CdkTypes \ {"BYTES"}
                   THEN Meta_add(cols, pos, types[pos])
                   ELSE Meta_add_raw(cols, pos, types[pos]),
                 pos + 1, n, types)

(* const Column_info& get_column(pos) const { return m_cols.at(pos); }     *)
(* const Format_info& get_format(pos) const { return m_cols.at(pos); }     *)
Meta_get_column(pos) ==
  IF pos \in DOMAIN m_cols THEN Ok(m_cols[pos]) ELSE Err("out_of_range")

(* convert(bytes, Format_descr<T>&) of a type with a codec (STRING,        *)
(* INTEGER, FLOAT, DOCUMENT): the value the codec decodes from the bytes   *)
(* without the trailing byte.                                              *)
convert_codec(ty, data) ==
  [kind |-> ty, bytes |-> SubSeq(data, 1, Len(data) - 1)]

(* template <T> Value convert(bytes data, Format_descr<T>&)                *)
(*   { return { data.begin(), data.size()-1 }; }                           *)
convert(ty, data) ==
  [kind |-> "RAW", bytes |-> SubSeq(data, 1, Len(data) - 1)]

(* Value::Access::mk(data, format): the value convert() builds; its raw    *)
(* representation m_str holds the same bytes without the trailing byte.    *)
Value_mk(ty, data) ==
  IF ty \in {"STRING", "INTEGER", "FLOAT", "DOCUMENT"}
    THEN convert_codec(ty, data)
    ELSE convert(ty, data)

(* void convert_at(pos, fi): no buffer or an empty one: the NULL value;    *)
(* otherwise switch (fi.m_type) { CDK_TYPE_LIST(CONVERT) }, which has a    *)
(* case for each type of CDK_TYPE_LIST and no default.  mk tells whether   *)
(* Value::Access::mk was called.                                           *)
convert_at(pos, fi) ==
  IF pos \notin DOMAIN m_data \/ Len(MapAt(m_data, pos)) = 0
    THEN [vals |-> MapInsert(m_vals, pos, NullValue), mk |-> FALSE]
  ELSE IF fi.m_type \in CdkTypes
    THEN [vals |-> MapInsert(m_vals, pos, Value_mk(fi.m_type, m_data[pos])),
          mk |-> TRUE]
  ELSE [vals |-> m_vals, mk |-> FALSE]

\* col_count_t col_count() const
Row_col_count == IF m_mdata THEN Meta_m_col_count ELSE m_col_count

\* get that converts on every call
Row_get_always(pos) ==
  IF m_mdata /\ pos >= Meta_m_col_count
    THEN [ret |-> Err("out_of_range"), vals |-> m_vals, mk |-> FALSE]
  ELSE IF ~m_mdata
    THEN [ret |-> Err("out_of_range"), vals |-> m_vals, mk |-> FALSE]
  ELSE LET cv == convert_at(pos, m_cols[pos])
       IN [ret |-> IF pos \in DOMAIN cv.vals THEN Ok(cv.vals[pos])
                   ELSE Err("out_of_range"),
           vals |-> cv.vals, mk |-> cv.mk]

(* Value& get(col_count_t pos): out of range with meta-data: throws;       *)
(* a value already in m_vals: that value; no meta-data: rethrows;          *)
(* otherwise convert_at(pos, get_format(pos)) and m_vals.at(pos).          *)
Row_get(pos) ==
  IF m_mdata /\ pos >= Meta_m_col_count
    THEN [ret |-> Err("out_of_range"), vals |-> m_vals, mk |-> FALSE]
  ELSE IF pos \in DOMAIN m_vals
    THEN [ret |-> Ok(m_vals[pos]), vals |-> m_vals, mk |-> FALSE]
  ELSE IF ~m_mdata
    THEN [ret |-> Err("out_of_range"), vals |-> m_vals, mk |-> FALSE]
  ELSE LET cv == convert_at(pos, m_cols[pos])
       IN [ret |-> IF pos \in DOMAIN cv.vals THEN Ok(cv.vals[pos])
                   ELSE Err("out_of_range"),
           vals |-> cv.vals, mk |-> cv.mk]

\* get_bytes without the range test
Row_get_bytes_norange(pos) == Ok(MapAt(m_data, pos))

(* bytes get_bytes(col_count_t pos) const: out of range with meta-data:    *)
(* throws; the buffer of the column, or empty bytes for a NULL column.     *)
Row_get_bytes(pos) ==
  IF m_mdata /\ pos >= Meta_m_col_count THEN Err("out_of_range")
  ELSE Ok(MapAt(m_data, pos))

(* void set(col_count_t pos, const Value &val)                             *)
(*   { m_vals.emplace(pos, val);                                           *)
(*     if (pos >= m_col_count) m_col_count = pos + 1; }                    *)
Row_set(pos, val) ==
  [vals |-> MapInsert(m_vals, pos, val),
   m_col_count |-> IF pos >= m_col_count THEN pos + 1 ELSE m_col_count]

RowCalled(name, a) ==
  /\ rop' = name
  /\ rarg' = a
  /\ again' = (name = "get" /\ a \in DOMAIN got)
  /\ UNCHANGED << baseVars, implVars >>

CountMk(pos) == IF pos \in DOMAIN mkCount THEN mkCount[pos] ELSE 0

\* The record of the first value get(pos) returned.
Remember(pos, val) == MapInsert(got, pos, val)

(* Row_impl(const Row_data &data, const shared_ptr<Meta_data_base> &md)    *)
(* with the catalog Meta_data(md) built for a cursor of up to MaxCols      *)
(* columns and one of the rows RowDatas; or Row_impl(), a row without      *)
(* data and meta-data.                                                     *)
RowStart ==
  /\ Meta_m_col_count \in 0..MaxCols
  /\ m_cols \in {Meta_data(<< >>, 0, Meta_m_col_count, t) :
                   t \in ColumnTypes(Meta_m_col_count)}
  /\ m_mdata \in BOOLEAN
  /\ m_data \in (IF m_mdata THEN RowDatas(Meta_m_col_count) ELSE {<< >>})
  /\ m_vals = << >>
  /\ m_col_count = 0
  /\ mkCount = << >>
  /\ got = << >>
  /\ again = FALSE
  /\ setCalls = 0
  /\ lastSet = << >>
  /\ rop = "Row_impl"
  /\ rarg = 0
  /\ rret = Ok(None)

\* The Row_impl part of the state while no row is used.
RowIdle ==
  /\ RowStart
  /\ Meta_m_col_count = 0
  /\ ~m_mdata

RowGet ==
  \E pos \in 0..MaxCols :
    LET g == Row_get(pos)
    IN /\ rret' = g.ret
       /\ m_vals' = g.vals
       /\ mkCount' = IF g.mk THEN MapPut(mkCount, pos, CountMk(pos) + 1)
                     ELSE mkCount
       /\ got' = IF g.ret.ok THEN Remember(pos, g.ret.val) ELSE got
       /\ RowCalled("get", pos)
       /\ UNCHANGED << Meta_m_col_count, m_cols, m_data, m_mdata,
                       m_col_count, setCalls, lastSet >>

RowGetBytes ==
  \E pos \in 0..MaxCols :
    /\ rret' = Row_get_bytes(pos)
    /\ RowCalled("get_bytes", pos)
    /\ UNCHANGED << Meta_m_col_count, m_cols, m_data, m_mdata, m_vals,
                    m_col_count, mkCount, got, setCalls, lastSet >>

\* set(pos, val) with val one of vals, at most max calls on one row.
RowSetOf(vals, max) ==
  \E pos \in 0..MaxCols : \E val \in vals :
    LET st == Row_set(pos, val)
    IN /\ setCalls < max
       /\ setCalls' = setCalls + 1
       /\ lastSet' = MapPut(lastSet, pos, val)
       /\ m_vals' = st.vals
       /\ m_col_count' = st.m_col_count
       /\ rret' = Ok(None)
       /\ RowCalled("set", pos)
       /\ UNCHANGED << Meta_m_col_count, m_cols, m_data, m_mdata, mkCount,
                       got >>

RowSet == RowSetOf({UserValue}, MaxSets)

\* set() on a row the client builds itself, Row_impl().
UserRowSet == RowSetOf(UserValues, MaxUserSets)

(* void clear() { m_data.clear(); m_vals.clear(); m_mdata.reset(); }       *)
(* The row built from data and meta-data ends here; the record of what     *)
(* was read from it goes with it.                                          *)
RowClear ==
  /\ m_data' = << >>
  /\ m_vals' = << >>
  /\ m_mdata' = FALSE
  /\ mkCount' = << >>
  /\ got' = << >>
  /\ rret' = Ok(None)
  /\ RowCalled("clear", 0)
  /\ UNCHANGED << Meta_m_col_count, m_cols, m_col_count, setCalls, lastSet >>

RowColCount ==
  /\ rret' = Ok(Row_col_count)
  /\ RowCalled("col_count", 0)
  /\ UNCHANGED << Meta_m_col_count, m_cols, m_data, m_mdata, m_vals,
                  m_col_count, mkCount, got, setCalls, lastSet >>

MetaGetColumn ==
  \E pos \in 0..MaxCols :
    /\ rret' = Meta_get_column(pos)
    /\ RowCalled("get_column", pos)
    /\ UNCHANGED << Meta_m_col_count, m_cols, m_data, m_mdata, m_vals,
                    m_col_count, mkCount, got, setCalls, lastSet >>

MetaGetFormat ==
  \E pos \in 0..MaxCols :
    /\ rret' = Meta_get_column(pos)
    /\ RowCalled("get_format", pos)
    /\ UNCHANGED << Meta_m_col_count, m_cols, m_data, m_mdata, m_vals,
                    m_col_count, mkCount, got, setCalls, lastSet >>

\* Type_info get_type(pos) const { return get_format(pos).m_type; }
MetaGetType ==
  \E pos \in 0..MaxCols :
    /\ rret' = IF Meta_get_column(pos).ok
                 THEN Ok(Meta_get_column(pos).val.m_type)
                 ELSE Meta_get_column(pos)
    /\ RowCalled("get_type", pos)
    /\ UNCHANGED << Meta_m_col_count, m_cols, m_data, m_mdata, m_vals,
                    m_col_count, mkCount, got, setCalls, lastSet >>

\* ------------------------------------- column facts of Result_impl_base

\* cdk::Cursor::col_count(): the rows of WireFields have two columns.
Cursor_col_count == 2

\* cdk::Cursor::type(pos) of the two columns.
Cursor_types == (0 :> "INTEGER") @@ (1 :> "BYTES")

(* m_mdata, the catalog next_result() builds from the cursor of a          *)
(* row-bearing result: Meta_data(cursor).                                  *)
Result_catalog == Meta_data(<< >>, 0, Cursor_col_count, Cursor_types)

(* Whether m_mdata is non-null: it is while the result holds a cursor;     *)
(* without a cursor it is null or a catalog left by an earlier result.     *)
Result_m_mdata == IF m_cursor THEN {TRUE} ELSE BOOLEAN

\* get_col_count that only refuses a result object never prepared
get_col_count_inited ==
  IF ~m_inited THEN Err("No result set") ELSE Ok(Cursor_col_count)

(* col_count_t get_col_count() const                                       *)
(*   { if (!m_cursor) THROW("No result set"); return col_count(); }        *)
get_col_count ==
  IF ~m_cursor THEN Err("No result set") ELSE Ok(Cursor_col_count)

(* const Column_info& get_column(col_count_t pos) const                    *)
(*   { if (!m_cursor || !m_mdata) THROW("No result set");                  *)
(*     return m_mdata->get_column(pos); }     (m_cols.at(pos))             *)
get_column(pos, md) ==
  IF ~m_cursor \/ ~md THEN Err("No result set")
  ELSE IF pos \in DOMAIN Result_catalog THEN Ok(Result_catalog[pos])
  ELSE Err("out_of_range")

GetColCount ==
  /\ Called("get_col_count", 0)
  /\ ret' = get_col_count
  /\ calls' = 0
  /\ UNCHANGED << Unread, m_diag_ready, m_diag, diagReads, diagClears >>

GetColumn ==
  \E pos \in 0..Cursor_col_count : \E md \in Result_m_mdata :
    /\ Called("get_column", pos)
    /\ ret' = get_column(pos, md)
    /\ calls' = 0
    /\ UNCHANGED << Unread, m_diag_ready, m_diag, diagReads, diagClears >>

\* ==================================================== the specifications

Init == BaseInit /\ ImplIdle /\ RowIdle

Next ==
  \/ NextResult
  \/ HasData
  \/ GetRow
  \/ LoadCache
  \/ Store
  \/ Count
  \/ GetAffectedRows
  \/ GetAutoIncrement
  \/ GetWarningCount

Spec == Init /\ [][Next]_vars

(* The result's facts and diagnostics over the results of a reply, with    *)
(* clear_diagnostics().                                                    *)
InfoNext ==
  \/ NextResult
  \/ GetWarningCount
  \/ ClearDiagnostics
  \/ GetColCount
  \/ GetColumn
  \/ LoadCache

InfoSpec == Init /\ [][InfoNext]_vars

ImplInit == BaseIdle /\ ImplStart /\ RowIdle

ImplNext ==
  \/ Impl_RowBegin
  \/ Impl_FieldNull
  \/ Impl_FieldBegin
  \/ Impl_FieldData
  \/ Impl_FieldEnd
  \/ Impl_RowEnd
  \/ Impl_EndOfData
  \/ RowResult_next
  \/ GetString
  \/ GetBytes
  \/ GetColumnCount
  \/ Impl_DeleteReply
  \/ Impl_DeleteCursor

ImplSpec == ImplInit /\ [][ImplNext]_vars

\* RowResult: the rows are read, then iterated with next() and read.
RowResultNext ==
  \/ Impl_RowBegin
  \/ Impl_FieldNull
  \/ Impl_FieldBegin
  \/ Impl_FieldData
  \/ Impl_FieldEnd
  \/ Impl_RowEnd
  \/ Impl_EndOfData
  \/ RowResult_next
  \/ Row_GetBytes

RowResultSpec == ImplInit /\ [][RowResultNext]_vars

RowInit == BaseIdle /\ ImplIdle /\ RowStart

RowNext ==
  \/ RowGet
  \/ RowGetBytes
  \/ RowSet
  \/ RowClear
  \/ RowColCount
  \/ MetaGetColumn
  \/ MetaGetFormat
  \/ MetaGetType

RowSpec == RowInit /\ [][RowNext]_vars

\* A row the client builds with Row_impl() and set(): no data, no catalog.
UserRowInit == BaseIdle /\ ImplIdle /\ RowIdle

UserRowNext ==
  \/ UserRowSet
  \/ RowGet
  \/ RowColCount

UserRowSpec == UserRowInit /\ [][UserRowNext]_vars

\* ================================================================== claims

Min(a, b) == IF a < b THEN a ELSE b

\* The filter's verdict on row i, read off the wire: odd rows have a NULL
\* column 0.
Accepts(f, i) == f = "all" \/ i % 2 = 0

\* What row i of result r must look like once assembled.
ExpectedRow(r, i) ==
  IF i % 2 = 1 THEN (1 :> <<r, i, 0>>)
  ELSE (0 :> <<0>>) @@ (1 :> <<r, i, 0>>)

\* The rows from..to-1 (0-based) of result r that filter f accepts, in
\* transport order.
RECURSIVE ExpectedRows(_, _, _, _)
ExpectedRows(r, from, to, f) ==
  IF from >= to THEN << >>
  ELSE (IF Accepts(f, from) THEN << ExpectedRow(r, from) >> ELSE << >>)
         \o ExpectedRows(r, from + 1, to, f)

\* All rows of the current result that the installed filter lets through.
CurRows == ExpectedRows(rpos, 0, Cur.rows, m_row_filter)

\* A result has been prepared by next_result() and is the current one.
Prepared == m_inited /\ ~exhausted /\ Cur.kind \in {"data", "status"}
PreparedData == Prepared /\ Cur.kind = "data"

Getters == {"get_affected_rows", "get_auto_increment", "get_warning_count"}

\* The reply has reported its end: it held rpos results.
ReplyEnded == cur.kind = "end"

C1_FreshWitness ==
  /\ op = "get_affected_rows"
  /\ m_reply
  /\ nextCalls = 0
  /\ ret.ok

C2_RowsWitness ==
  /\ m_row_filter = "all"
  /\ PreparedData
  /\ Cur.rows = 2
  /\ Len(taken) = 2
  /\ op = "get_row"
  /\ ret = Ok(NoRow)

(* C3: once next_result() has returned false, every later next_result()    *)
(* returns false and has_data() is false in every state.                   *)
C3_ExhaustedTerminal ==
  exhausted =>
    /\ op = "next_result" => ret = Ok(FALSE)
    /\ ~has_data(m_row_cache, m_pending_rows)
    /\ op = "has_data" => ret = Ok(FALSE)

\* A second next_result() call after the one that reported the end of a
\* reply whose last result had rows.
C3_Witness ==
  /\ exhausted
  /\ m_reply
  /\ ReplyEnded
  /\ rpos = 1
  /\ op = "next_result"
  /\ nextCalls = 3
  /\ ret = Ok(FALSE)

\* The result a cached or returned row belongs to (first byte of column 1).
RowResult(row) == row[1][1]

(* C4: next_result() discards the unread rows of the current result: right *)
(* after it the cache is empty and its size counter is 0, and afterwards   *)
(* the cache, get_row() and count() only ever hold, return and count rows  *)
(* of the result that is current.                                          *)
C4_NoStaleRows ==
  /\ op = "next_result" => (m_row_cache = << >> /\ m_row_cache_size = 0)
  /\ \A j \in 1..Len(m_row_cache) : RowResult(m_row_cache[j]) = rpos
  /\ \A j \in 1..Len(taken) : RowResult(taken[j]) = rpos
  /\ (op = "get_row" /\ ret.ok /\ ret.val # NoRow) =>
       RowResult(ret.val[1]) = rpos
  /\ op = "count" =>
       /\ ret.val = Cardinality({j \in 1..Len(m_row_cache) :
                                   RowResult(m_row_cache[j]) = rpos})
       /\ ret.val <= Len(CurRows) - Len(taken)

\* count() on the second result after next_result() dropped cached and
\* undelivered rows of the first.
C4_Witness ==
  /\ op = "count"
  /\ rpos = 2
  /\ nextCalls = 2
  /\ dropped
  /\ ret.val >= 1

(* C5: get_row() fails exactly when the current result has no row data (a  *)
(* status result, no result prepared yet, or the reply exhausted); on a    *)
(* result with row data, once every row has been returned, each further    *)
(* get_row() returns NULL and does not fail.                               *)
C5_GetRowFailure ==
  [][op' = "get_row" =>
       /\ ret'.ok <=> PreparedData'
       /\ ~ret'.ok => ret' = Err("no data")
       /\ (PreparedData /\ Len(taken) = Len(CurRows)) => ret' = Ok(NoRow)]_vars

C5_Witness ==
  /\ op = "get_row"
  /\ Prepared
  /\ Cur.kind = "status"
  /\ ret = Err("no data")

\* get_row() returning NULL again on a result whose rows were all returned.
C5_NullWitness ==
  /\ op = "get_row"
  /\ PreparedData
  /\ Cur.rows = MaxRows
  /\ Len(taken) = MaxRows
  /\ ~m_pending_rows
  /\ calls = 0
  /\ ret = Ok(NoRow)

\* The cursor still holds rows of the current result it has not delivered.
TransportPending == m_cursor /\ cpos < Cur.rows

\* get_row() has just returned the last row of the current result.
LastRowTaken ==
  /\ op = "get_row"
  /\ PreparedData
  /\ ret.ok
  /\ ret.val # NoRow
  /\ Len(taken) = Len(CurRows)

C7_TransportOrder ==
  taken \o m_row_cache = ExpectedRows(rpos, 0, cpos, m_row_filter)

\* Rows were returned and cached in several batches with a row rejected.
C7_Witness ==
  /\ m_row_filter = "col0_not_null"
  /\ Cur.rows = MaxRows
  /\ cpos = MaxRows
  /\ Len(taken) = 2
  /\ Len(m_row_cache) = 1
  /\ op = "get_row"

\* load_cache(n), n > 0, is called with an empty cache and pending rows.
C8_Pre == op' = "load_cache" /\ arg' > 0 /\ m_row_cache = << >> /\ m_pending_rows

C9_DrainsAlways ==
  [][(op' = "load_cache" /\ arg' = 0) => ~TransportPending']_vars

(* C9 amended: load_cache(0) called with an empty cache drains the         *)
(* transport: every remaining row the filter accepts is cached and no rows *)
(* are pending.  Called while rows of an earlier load are still in the     *)
(* cache it returns true and fetches nothing: the remaining rows stay      *)
(* pending until the cache has been emptied.                               *)
C9_DrainsWhenEmpty ==
  [][(op' = "load_cache" /\ arg' = 0) =>
       IF m_row_cache = << >>
         THEN /\ ~m_pending_rows'
              /\ ~TransportPending'
              /\ m_cursor => cpos' = Cur.rows
              /\ m_row_cache' =
                   (IF m_pending_rows
                      THEN ExpectedRows(rpos, cpos, Cur.rows, m_row_filter)
                      ELSE << >>)
         ELSE /\ ret' = Ok(TRUE)
              /\ UNCHANGED << m_row_cache, m_pending_rows, cpos >>]_vars

\* load_cache(0) has drained the two rows that earlier loads of three rows,
\* since returned by get_row(), had left pending.
C9_Witness ==
  /\ op = "load_cache"
  /\ arg = 0
  /\ m_row_filter = "all"
  /\ Cur.rows = 5
  /\ Len(taken) = 3
  /\ Len(m_row_cache) = 2
  /\ ~m_pending_rows
  /\ calls > 0

\* Rows cached by a bounded load are still there and load_cache(0) has
\* returned without fetching: rows remain pending.
C9_StillPending ==
  /\ op = "load_cache"
  /\ arg = 0
  /\ calls = 0
  /\ m_row_filter = "all"
  /\ Cur.rows = 5
  /\ Len(m_row_cache) = 3
  /\ cpos = 3
  /\ TransportPending

(* C10: load_cache(n), for any n, called when the cache holds a row        *)
(* returns true at once and changes nothing: cache, size counter,          *)
(* pending-rows flag and cursor position stay as they are and no ingest    *)
(* callback runs.                                                          *)
C10_NoOpWhenCached ==
  [][(op' = "load_cache" /\ m_row_cache # << >>) =>
       /\ ret' = Ok(TRUE)
       /\ calls' = 0
       /\ UNCHANGED << m_row_cache, m_row_cache_size, m_pending_rows, cpos,
                       m_row, rpos, m_cursor >>]_vars

\* load_cache(1) has returned without a callback while rows are pending
\* and the cache holds a row.
C10_Witness ==
  /\ op = "load_cache"
  /\ arg = 1
  /\ calls = 0
  /\ ret = Ok(TRUE)
  /\ Len(m_row_cache) = 1
  /\ TransportPending
  /\ m_pending_rows

(* C11 as stated: after store() on a row-bearing result the cursor has     *)
(* delivered every row, no rows are pending, and every accepted row that   *)
(* get_row() has not returned is in the cache, whatever load_cache(n) and  *)
(* get_row() calls came before.                                            *)
C11_StoreDrains ==
  (op = "store" /\ m_cursor) =>
    /\ ~m_pending_rows
    /\ cpos = Cur.rows
    /\ taken \o m_row_cache = CurRows

(* C12: store() followed by count() twice with nothing in between: the     *)
(* second count() returns what the first returned, runs no ingest callback *)
(* and leaves the cursor's position and the cache as they were.            *)
C12_CountIdempotent ==
  [][ sinceStore' = 3 =>
        /\ ret' = ret
        /\ calls' = 0
        /\ cpos' = cpos
        /\ m_row_cache' = m_row_cache ]_vars

\* store() drained three rows, both count() calls reported them.
C12_Witness ==
  /\ sinceStore = 3
  /\ ret = Ok(3)
  /\ Len(m_row_cache) = 3
  /\ cpos = Cur.rows
  /\ ~m_pending_rows

\* store() found rows cached and fetched nothing, rows are still pending.
C12_PendingWitness ==
  /\ sinceStore = 3
  /\ ret = Ok(1)
  /\ m_pending_rows
  /\ cpos < Cur.rows

(* C13 as stated: on a result of k filter-accepted rows, after j calls of  *)
(* get_row() that returned a row, count() returns k - j, whatever          *)
(* load_cache(n) calls came before it.                                     *)
C13_CountRemaining ==
  (op = "count" /\ m_cursor) => ret = Ok(Len(CurRows) - Len(taken))

\* The index of a row, the second byte of its column 1.
RowIndex(row) == row[1][2]

(* C14: the rows in the cache and the rows get_row() has returned all pass *)
(* the installed filter, a rejected row is never cached nor counted by     *)
(* count(); the surviving rows keep the index they were delivered with and *)
(* their relative order; once the result is read through, get_row() has    *)
(* returned exactly the delivered rows the filter accepts (with the        *)
(* default filter: all of them).                                           *)
C14_RowFilter ==
  LET kept == taken \o m_row_cache
  IN /\ \A j \in 1..Len(kept) :
          /\ RowFilter(m_row_filter, kept[j])
          /\ Accepts(m_row_filter, RowIndex(kept[j]))
          /\ RowIndex(kept[j]) < cpos
          /\ \A h \in 1..(j - 1) : RowIndex(kept[h]) < RowIndex(kept[j])
     /\ m_row_cache_size = Len(m_row_cache)
     /\ (op = "count" => ret = Ok(Len(m_row_cache)))
     /\ (m_cursor /\ ~m_pending_rows /\ m_row_cache = << >>) =>
          /\ taken = CurRows
          /\ (m_row_filter = "all" => Len(taken) = Cur.rows)

\* Five rows, rows 1 and 3 rejected: rows 0, 2 and 4 were returned.
C14_Witness ==
  /\ m_row_filter = "col0_not_null"
  /\ Cur.rows = 5
  /\ ~m_pending_rows
  /\ m_row_cache = << >>
  /\ Len(taken) = 3
  /\ RowIndex(taken[1]) = 0
  /\ RowIndex(taken[2]) = 2
  /\ RowIndex(taken[3]) = 4

\* What the cursor has delivered so far of column c of row r.
Delivered(r, c) ==
  IF reading /\ t_in_row /\ r = t_row /\ c = t_col
    THEN SubSeq(wire[r][c], 1, Len(wire[r][c]) - Len(t_left))
    ELSE wire[r][c]

(* C15: at every point of the delivery the buffer stored for a column of a *)
(* row is the concatenation, in delivery order, of the chunks delivered    *)
(* for it, whatever the order of the columns and the sizes of the chunks;  *)
(* a column delivered with field_null has no buffer.                       *)
C15_FieldAssembly ==
  /\ DOMAIN m_rows = DOMAIN wire
  /\ \A r \in DOMAIN wire :
       /\ DOMAIN m_rows[r] = DOMAIN wire[r]
       /\ \A c \in DOMAIN wire[r] : m_rows[r][c] = Delivered(r, c)

(* Column 1 was delivered before column 0, its three bytes in three        *)
(* chunks, and the field has ended.                                        *)
C15_Witness ==
  /\ iop = "field_end"
  /\ iarg = 1
  /\ t_done = {1}
  /\ col_count = 2
  /\ m_rows[t_row][1] = <<5, 6, 0>>

\* Both rows are read, row 1 with column 0 delivered after column 1.
C15_DoneWitness ==
  /\ ~reading
  /\ t_row = 2
  /\ m_rows[0] = (0 :> <<0>>) @@ (1 :> <<5, 6, 0>>)
  /\ m_rows[1] = (1 :> <<0>>)

(* C20 as stated: getString(pos) on a result with a cursor fails for every *)
(* position that is not a column, pos = col_count included; it returns no  *)
(* string for such a position.                                             *)
C20_GetStringRange ==
  (iop = "getString" /\ Impl_m_cursor /\ iarg >= col_count) => ~iret.ok

\* The wire types that have a codec.
CodecTypes == {"STRING", "INTEGER", "FLOAT", "DOCUMENT"}

(* get(pos) is about to decode column pos: the row has meta-data, pos is a *)
(* column and no value is memoized for it.                                 *)
Decoding(pos) ==
  m_mdata /\ pos < Meta_m_col_count /\ pos \notin DOMAIN m_vals

(* C16 as stated: get(pos) returns the NULL value for a column absent from *)
(* the raw row, whatever its wire type, and a non-NULL empty value for a   *)
(* column whose buffer holds only the trailing byte.                       *)
C16_NullVersusEmpty ==
  [][ (rop' = "get" /\ Decoding(rarg')) =>
        /\ rarg' \notin DOMAIN m_data => rret' = Ok(NullValue)
        /\ (rarg' \in DOMAIN m_data /\ MapAt(m_data, rarg') = <<0>>) =>
             /\ rret'.ok
             /\ rret'.val.kind # "VNULL"
             /\ rret'.val.bytes = << >> ]_vars

(* C17 as stated: for a column whose wire type has no codec (DATETIME,     *)
(* GEOMETRY, XML, BYTES or a type code that is none of the known ones),    *)
(* get(pos) on a present field of L >= 1 bytes does not fail and returns   *)
(* a raw value holding the first L - 1 bytes.                              *)
C17_RawBytes ==
  [][ ( /\ rop' = "get"
        /\ Decoding(rarg')
        /\ rarg' \in DOMAIN m_data
        /\ Len(MapAt(m_data, rarg')) >= 1
        /\ m_cols[rarg'].m_type \notin CodecTypes ) =>
        rret' = Ok([kind |-> "RAW",
                    bytes |-> SubSeq(m_data[rarg'], 1,
                                     Len(m_data[rarg']) - 1)]) ]_vars

(* C18: on a row with meta-data every get(pos) that returns a value        *)
(* returns the value the first get(pos) returned; a get(pos) after a       *)
(* get(pos) that returned a value returns one too, converts nothing and    *)
(* leaves m_vals alone; the conversion of a position runs at most once;    *)
(* get(pos) neither adds, removes nor changes the value memoized for any   *)
(* other position.                                                         *)
C18_Memoized ==
  [][ (rop' = "get" /\ m_mdata) =>
        /\ rret'.ok => rret'.val = got'[rarg']
        /\ again' => (rret'.ok /\ m_vals' = m_vals /\ mkCount' = mkCount)
        /\ \A q \in DOMAIN mkCount' : mkCount'[q] <= 1
        /\ \A q \in (DOMAIN m_vals \cup DOMAIN m_vals') \ {rarg'} :
             /\ q \in DOMAIN m_vals
             /\ q \in DOMAIN m_vals'
             /\ m_vals'[q] = m_vals[q] ]_vars

(* A STRING column is read again: it was converted once, the value of      *)
(* another column is memoized as well.                                     *)
C18_Witness ==
  /\ rop = "get"
  /\ again
  /\ m_mdata
  /\ rret.ok
  /\ rret.val = [kind |-> "STRING", bytes |-> <<5, 6>>]
  /\ CountMk(rarg) = 1
  /\ Cardinality(DOMAIN m_vals) = 2

\* The operations that look a column up in the catalog, and in a row.
CatalogLookups == {"get_column", "get_format", "get_type"}
RowLookups == {"get", "get_bytes"}

\* What an operation answered for a position that is not a column.
C19_OutOfRange ==
  /\ (rop \in CatalogLookups /\ rarg >= Meta_m_col_count) =>
       rret = Err("out_of_range")
  /\ (rop \in RowLookups /\ m_mdata /\ rarg >= Meta_m_col_count) =>
       rret = Err("out_of_range")

(* C19: the catalog built from a cursor of n columns holds a descriptor    *)
(* for exactly the positions 0..n-1; get_column, get_format, and get and   *)
(* get_bytes of a row with this catalog, fail with an out-of-range error   *)
(* for pos >= n and change neither the catalog nor the row's values.       *)
C19_CatalogRange ==
  /\ [](DOMAIN m_cols = 0..(Meta_m_col_count - 1) /\ C19_OutOfRange)
  /\ [][ ( /\ rarg' >= Meta_m_col_count
           /\ rop' \in CatalogLookups \/ (rop' \in RowLookups /\ m_mdata) ) =>
           UNCHANGED << Meta_m_col_count, m_cols, m_data, m_vals, mkCount,
                        got >> ]_vars

\* get(2) on a row of two columns, both of them already memoized.
C19_Witness ==
  /\ rop = "get"
  /\ rarg = 2
  /\ Meta_m_col_count = 2
  /\ m_mdata
  /\ rret = Err("out_of_range")
  /\ DOMAIN m_vals = {0, 1}

(* C21 as stated: a result destroyed while it holds both a cursor and a    *)
(* reply releases the cursor strictly before the reply: the reply is never *)
(* released while the cursor still exists.                                 *)
C21_CursorBeforeReply ==
  (Impl_m_reply /\ Impl_m_cursor /\ released # << >>) =>
    released[1] = "cursor"

C24_NoResultSet ==
  /\ m_cursor <=> PreparedData
  /\ op = "get_col_count" =>
       ret = (IF PreparedData THEN Ok(Cursor_col_count)
              ELSE Err("No result set"))
  /\ op = "get_column" =>
       IF ~PreparedData THEN ret = Err("No result set")
       ELSE arg < Cursor_col_count =>
              /\ ret.ok
              /\ ret.val.m_type = Cursor_types[arg]

(* get_column(0) failed on a status-only result; the result before it was  *)
(* row-bearing and still had rows cached and rows undelivered.             *)
C24_Witness ==
  /\ op = "get_column"
  /\ arg = 0
  /\ Prepared
  /\ Cur.kind = "status"
  /\ dropped
  /\ ret = Err("No result set")

\* get_column(1) returned the descriptor of column 1 of a row-bearing result.
C24_DataWitness ==
  /\ op = "get_column"
  /\ arg = 1
  /\ PreparedData
  /\ ret = Ok([m_type |-> "BYTES", m_fmt |-> "BYTES"])

(* C25: every row in the cache or returned by get_row() holds exactly the  *)
(* fields delivered between its own row_begin and row_end: column 1 with   *)
(* the bytes of that row only, column 0 with its one byte in an even row   *)
(* and no buffer for column 0 in an odd row, where it is NULL, whatever    *)
(* the row before it held and whether or not the filter rejected it.       *)
C25_RowBeginResets ==
  LET kept == taken \o m_row_cache
  IN \A j \in 1..Len(kept) :
       LET i == RowIndex(kept[j])
       IN /\ kept[j][1] = << rpos, i, 0 >>
          /\ i % 2 = 1 => DOMAIN kept[j] = {1}
          /\ i % 2 = 0 => (DOMAIN kept[j] = {0, 1} /\ kept[j][0] = <<0>>)

(* Row 2 is cached right after row 0: row 1, delivered between them, was   *)
(* rejected by the filter and left its column 1 in m_row.                  *)
C25_Witness ==
  /\ m_row_filter = "col0_not_null"
  /\ Len(m_row_cache) = 2
  /\ RowIndex(m_row_cache[1]) = 0
  /\ RowIndex(m_row_cache[2]) = 2
  /\ m_row_cache[2] = (0 :> <<0>>) @@ (1 :> << rpos, 2, 0 >>)

\* Row 1, with a NULL column 0, is cached after row 0, whose column 0 is not.
C25_NullWitness ==
  /\ m_row_filter = "all"
  /\ Len(m_row_cache) = 2
  /\ DOMAIN m_row_cache[1] = {0, 1}
  /\ m_row_cache[2] = (1 :> << rpos, 1, 0 >>)

\* The callbacks the cursor runs to deliver the fields flds of one row.
RECURSIVE FieldCallbacks(_)
FieldCallbacks(flds) ==
  IF flds = << >> THEN 0
  ELSE (IF Head(flds).null THEN 1 ELSE 2 + Len(Head(flds).chunks))
         + FieldCallbacks(Tail(flds))

\* The callbacks of the rows from..to-1 of result r, with row_begin and row_end.
RECURSIVE RowCallbacks(_, _, _)
RowCallbacks(r, from, to) ==
  IF from >= to THEN 0
  ELSE 2 + FieldCallbacks(WireFields(r, from)) + RowCallbacks(r, from + 1, to)

C27_CacheSize ==
  /\ [](m_row_cache_size = Len(m_row_cache))
  /\ [][ /\ op' \in {"load_cache", "store", "count"} =>
               m_row_cache_size' - m_row_cache_size =
                 Len(ExpectedRows(rpos, cpos, cpos', m_row_filter))
         /\ (op' = "get_row" /\ ret'.ok /\ ret'.val # NoRow) =>
               m_row_cache_size' - m_row_cache_size =
                 Len(ExpectedRows(rpos, cpos, cpos', m_row_filter)) - 1
         /\ op' = "next_result" =>
               (m_row_cache' = << >> /\ m_row_cache_size' = 0)
         /\ op' = "count" => ret' = Ok(Len(m_row_cache')) ]_vars

\* get_row() took one of three rows a load had cached: two are counted.
C27_Witness ==
  /\ op = "get_row"
  /\ calls = 0
  /\ Len(taken) = 2
  /\ Len(m_row_cache) = 2
  /\ m_row_cache_size = 2

\* next_result() emptied a cache that held rows.
C27_ClearWitness ==
  /\ op = "next_result"
  /\ dropped
  /\ m_row_cache = << >>
  /\ m_row_cache_size = 0

\* The largest position set() was called for.
MaxSetPos == CHOOSE q \in DOMAIN lastSet : \A x \in DOMAIN lastSet : x <= q

(* C28 as stated: on a row without meta-data, after any sequence of        *)
(* set(pos, v) calls, get(pos) returns the value of the most recent set    *)
(* for pos and fails with out_of_range for a position never set, and       *)
(* col_count() is one plus the largest position ever set, 0 if none.       *)
C28_LastSetWins ==
  /\ rop = "get" =>
       rret = (IF rarg \in DOMAIN lastSet THEN Ok(lastSet[rarg])
               ELSE Err("out_of_range"))
  /\ rop = "col_count" =>
       rret = Ok(IF lastSet = << >> THEN 0 ELSE MaxSetPos + 1)

(* C29 as stated: on a result that stored k rows, call j of next() returns *)
(* the row at position j - 1 for j <= k and NULL from call k + 1 on; on a  *)
(* result without a cursor every call returns NULL; a Row returned by an   *)
(* earlier next() still reads the data of its own row position after later *)
(* next() calls.                                                           *)
C29_NextInOrder ==
  LET k == Cardinality(DOMAIN m_rows)
  IN /\ ~reading => DOMAIN m_rows = 0..(k - 1)
     /\ iop = "next" =>
          /\ iarg = RowResult_m_pos - 1
          /\ iret = (IF Impl_m_cursor /\ iarg < k THEN Ok("this")
                     ELSE Ok(None))
          /\ iret = Ok("this") => m_pos = iarg
     /\ (iop = "getBytes" /\ ihandle # NoHandle) =>
          iret = (IF iarg \in DOMAIN m_rows[ihandle]
                    THEN Ok(m_rows[ihandle][iarg])
                  ELSE Err("out_of_range"))

====
